---- MODULE Spec2Model ----
(***************************************************************************)
(* urlkit: a URL shortener running as stateless request handlers over one  *)
(* shared DynamoDB table keyed by (short_url, create_at).                  *)
(*                                                                         *)
(* Every request is handled by its own invocation (a process of the        *)
(* model); the handlers share nothing but the table, so a handler is cut   *)
(* into one step per store call (put_item, query, update_item) and the     *)
(* steps of different invocations interleave freely.  The clock is the     *)
(* wall clock in whole seconds, as int(time.time()) reads it.              *)
(*                                                                         *)
(* Strings are TLA+ strings; a character is a string of length 1.          *)
(* The tracing tags request_id and user_id are copied into records and     *)
(* responses but never read by a branch, and are left out.                 *)
(***************************************************************************)
EXTENDS Integers, Sequences, FiniteSets, TLC

\* ------------------------------------------------------------------------
\* Program constants (src/lambda/constants.py)
\* ------------------------------------------------------------------------
MAX_URL_LENGTH == 2048
MIN_EXPIRY_DAYS == 1
MAX_EXPIRY_DAYS == 3650
DEFAULT_EXPIRY_DAYS == 365
MAX_RETRIES == 3
SECONDS_PER_DAY == 86400
MIN_URL_LENGTH == 3
ID_LENGTH == 7

ALLOWED_SCHEMES == {"http", "https"}

BLOCKED_DOMAINS ==
  {"localhost", "127.0.0.1", "0.0.0.0", "::1", "internal", "local", "intranet", "private"}

BLOCKED_TLDS == {"local", "internal", "localhost", "invalid", "test"}

\* r"..//" is the four characters ..// and r"\\" is two backslashes.
SECURITY_PATTERNS ==
  {"..//", "@", "data:", "javascript:", "vbscript:", "file:", "\\\\", "0x", "%00", "%0d", "%0a"}

CHARSET == "0123456789abcdefghijklmnopqrstuvwxyzABCDEFGHIJKLMNOPQRSTUVWXYZ"

\* ------------------------------------------------------------------------
\* Bounds of the model
\* ------------------------------------------------------------------------
NumProcs == 2      \* concurrent invocations
MaxRequests == 3   \* requests handled in one behaviour
MaxTicks == 2      \* clock advances in one behaviour
MaxRandom == 1     \* uuid4().int draws are taken from 0..MaxRandom
MaxSampleDays == 8 \* expiry inputs are written from the day counts -2..MaxSampleDays
MaxLength == 5     \* generate_short_id is asked for lengths up to MaxLength

Procs == 1..NumProcs

\* ------------------------------------------------------------------------
\* String helpers (Python str operations used by the source)
\* ------------------------------------------------------------------------
At(s, i) == SubSeq(s, i, i)

\* pat in s
Contains(s, pat) ==
  \E i \in 1..(Len(s) - Len(pat) + 1) : SubSeq(s, i, i + Len(pat) - 1) = pat

\* s.find(c) + 1 for a one-character c: the first position of c, 0 when absent
Find(s, c) ==
  IF \E i \in 1..Len(s) : At(s, i) = c
  THEN CHOOSE i \in 1..Len(s) : At(s, i) = c /\ \A j \in 1..(i - 1) : At(s, j) # c
  ELSE 0

\* s.rfind(c) + 1
RFind(s, c) ==
  IF \E i \in 1..Len(s) : At(s, i) = c
  THEN CHOOSE i \in 1..Len(s) : At(s, i) = c /\ \A j \in (i + 1)..Len(s) : At(s, j) # c
  ELSE 0

UPPER == "ABCDEFGHIJKLMNOPQRSTUVWXYZ"
LOWER == "abcdefghijklmnopqrstuvwxyz"
DIGITS == "0123456789"

LowerChar(c) == IF Find(UPPER, c) > 0 THEN At(LOWER, Find(UPPER, c)) ELSE c

RECURSIVE Lower(_)
Lower(s) == IF Len(s) = 0 THEN "" ELSE LowerChar(At(s, 1)) \o Lower(Tail(s))

\* the whitespace str.strip() removes, among the characters of the model
IsSpace(c) == c \in {" ", "\t", "\n", "\r", "\f"}

RECURSIVE LStrip(_)
LStrip(s) == IF Len(s) > 0 /\ IsSpace(At(s, 1)) THEN LStrip(Tail(s)) ELSE s

RECURSIVE RStrip(_)
RStrip(s) ==
  IF Len(s) > 0 /\ IsSpace(At(s, Len(s))) THEN RStrip(SubSeq(s, 1, Len(s) - 1)) ELSE s

Strip(s) == RStrip(LStrip(s))

\* ------------------------------------------------------------------------
\* generate_short_id: base-62 digits of the first draw, most significant
\* first, padded on the left from the second draw
\* ------------------------------------------------------------------------
RECURSIVE Base62While(_, _, _)
Base62While(n, length, short_id) ==
  IF n # 0 /\ Len(short_id) < length
  THEN Base62While(n \div 62, length, At(CHARSET, (n % 62) + 1) \o short_id)
  ELSE short_id

RECURSIVE PadWhileNonZero(_, _, _)
\* PadWhile with the condition of the first loop: it stops when the draw
\* has run out of digits
PadWhileNonZero(n, length, short_id) ==
  IF n # 0 /\ Len(short_id) < length
  THEN PadWhileNonZero(n \div 62, length, At(CHARSET, (n % 62) + 1) \o short_id)
  ELSE short_id

RECURSIVE PadWhile(_, _, _)
PadWhile(n, length, short_id) ==
  IF Len(short_id) < length
  THEN PadWhile(n \div 62, length, At(CHARSET, (n % 62) + 1) \o short_id)
  ELSE short_id

\* the value returned for length >= 1; length < 1 raises ValueError
generate_short_id(length, random_int, padding_uuid) ==
  PadWhile(padding_uuid, length, Base62While(random_int, length, ""))

\* ------------------------------------------------------------------------
\* JSON values as the handlers see them: a value is tagged with its Python
\* type.  None is the absent key (dict.get returns None) or JSON null.
\* ------------------------------------------------------------------------
None == [t |-> "none"]
JStr(s) == [t |-> "str", s |-> s]
\* a JSON integer n, or a JSON float given in tenths (75 is 7.5, -5 is -0.5)
JInt(n) == [t |-> "int", n |-> n]
JFloat(tenths) == [t |-> "float", tenths |-> tenths]
\* JSON true and false, and a JSON array
JBool(b) == [t |-> "bool", b |-> b]
JList == [t |-> "list"]

\* Python truth value: None, "", 0 and 0.0 are false
Truthy(v) ==
  CASE v.t = "none" -> FALSE
    [] v.t = "str" -> Len(v.s) > 0
    [] v.t = "int" -> v.n # 0
    [] v.t = "float" -> v.tenths # 0
    [] v.t = "bool" -> v.b
    [] v.t = "list" -> FALSE

\* ------------------------------------------------------------------------
\* urlparse, as far as validate_url reads its result: scheme, netloc,
\* username, password; a bracket without its partner raises ValueError
\* ------------------------------------------------------------------------
SCHEME_CHARS == LOWER \o UPPER \o DIGITS \o "+-."

IsAlpha(c) == Find(LOWER, c) > 0 \/ Find(UPPER, c) > 0
IsDigit(c) == Find(DIGITS, c) > 0

HasScheme(url) ==
  LET i == Find(url, ":")
  IN  /\ i > 1
      /\ IsAlpha(At(url, 1))
      /\ \A j \in 1..(i - 1) : Find(SCHEME_CHARS, At(url, j)) > 0

UrlScheme(url) == IF HasScheme(url) THEN Lower(SubSeq(url, 1, Find(url, ":") - 1)) ELSE ""

UrlRest(url) == IF HasScheme(url) THEN SubSeq(url, Find(url, ":") + 1, Len(url)) ELSE url

\* the end of the network location: the first of / ? # after the two slashes
NetlocEnd(rest) ==
  IF \E i \in 3..Len(rest) : At(rest, i) \in {"/", "?", "#"}
  THEN (CHOOSE i \in 3..Len(rest) :
          /\ At(rest, i) \in {"/", "?", "#"}
          /\ \A j \in 3..(i - 1) : At(rest, j) \notin {"/", "?", "#"}) - 1
  ELSE Len(rest)

UrlNetloc(url) ==
  LET rest == UrlRest(url)
  IN  IF SubSeq(rest, 1, 2) = "//" /\ Len(rest) >= 2 THEN SubSeq(rest, 3, NetlocEnd(rest)) ELSE ""

UrlParseFails(url) ==
  LET netloc == UrlNetloc(url)
  IN  \/ Contains(netloc, "[") /\ ~Contains(netloc, "]")
      \/ Contains(netloc, "]") /\ ~Contains(netloc, "[")

\* userinfo is what precedes the last @ of the netloc; username is what
\* precedes its first colon, password what follows it
UrlHasCredentials(url) ==
  LET netloc == UrlNetloc(url)
      a == RFind(netloc, "@")
      userinfo == SubSeq(netloc, 1, a - 1)
      c == Find(userinfo, ":")
      username == IF c > 0 THEN SubSeq(userinfo, 1, c - 1) ELSE userinfo
      password == IF c > 0 THEN SubSeq(userinfo, c + 1, Len(userinfo)) ELSE ""
  IN  a > 0 /\ (Len(username) > 0 \/ Len(password) > 0)

urlparse(url) ==
  [scheme |-> UrlScheme(url), netloc |-> UrlNetloc(url),
   credentials |-> UrlHasCredentials(url)]

\* ------------------------------------------------------------------------
\* is_private_ip on a dotted quad
\* ------------------------------------------------------------------------
RECURSIVE Split(_, _)
Split(s, c) ==
  IF Find(s, c) = 0 THEN <<s>>
  ELSE <<SubSeq(s, 1, Find(s, c) - 1)>> \o Split(SubSeq(s, Find(s, c) + 1, Len(s)), c)

AllDigits(s) == Len(s) > 0 /\ \A i \in 1..Len(s) : IsDigit(At(s, i))

\* re.match(r"^\d+\.\d+\.\d+\.\d+$", domain)
IsDottedQuad(domain) ==
  LET parts == Split(domain, ".")
  IN  Len(parts) = 4 /\ \A i \in 1..4 : AllDigits(parts[i])

RECURSIVE ToInt(_)
ToInt(s) == IF Len(s) = 0 THEN 0 ELSE ToInt(SubSeq(s, 1, Len(s) - 1)) * 10 + (Find(DIGITS, At(s, Len(s))) - 1)

\* ipaddress.ip_address accepts one to three digits per octet, no leading
\* zero, value at most 255; anything else raises ValueError
OctetOk(s) == Len(s) <= 3 /\ (Len(s) = 1 \/ At(s, 1) # "0") /\ ToInt(s) <= 255

is_private_ip(ip_str) ==
  LET parts == Split(ip_str, ".")
      a == ToInt(parts[1])
      b == ToInt(parts[2])
      c == ToInt(parts[3])
      d == ToInt(parts[4])
  IN  /\ \A i \in 1..4 : OctetOk(parts[i])
      /\ \/ a \in {0, 10, 127}
         \/ a = 169 /\ b = 254
         \/ a = 172 /\ b \in 16..31
         \/ a = 192 /\ b = 168
         \/ a = 192 /\ b = 0 /\ c = 0 /\ d \in (0..7) \cup {170, 171}
         \/ a = 192 /\ b = 0 /\ c = 2
         \/ a = 198 /\ b \in {18, 19}
         \/ a = 198 /\ b = 51 /\ c = 100
         \/ a = 203 /\ b = 0 /\ c = 113
         \/ a >= 224

\* ------------------------------------------------------------------------
\* validate_url: the result tuple (is_valid, error_message)
\* ------------------------------------------------------------------------
Invalid(msg) == [is_valid |-> FALSE, error_message |-> msg]
Valid == [is_valid |-> TRUE, error_message |-> "None"]

\* raise URLSecurityError(msg), caught at the end of validate_url
SecurityViolation(msg) == Invalid("Security violation: " \o msg)

\* the characters 0x21-0x7E, less the grave accent 0x60, which a TLA+ string
\* literal cannot hold; no string of the model contains one
PRINTABLE ==
  "!\"#$%&'()*+,-./" \o DIGITS \o ":;<=>?@" \o UPPER \o "[\\]^_" \o LOWER \o "{|}~"

\* domain.split(":")[0] when the netloc holds a colon
StripPort(domain) == IF Contains(domain, ":") THEN Split(domain, ":")[1] ELSE domain

\* domain.split(".")[-1] if "." in domain else ""
Tld(domain) ==
  IF Contains(domain, ".") THEN Split(domain, ".")[Len(Split(domain, "."))] ELSE ""

MatchedPatterns(url) == {pattern \in SECURITY_PATTERNS : Contains(Lower(url), pattern)}

validate_url(v) ==
  IF v.t # "str" THEN Invalid("URL must be a string")
  ELSE IF ~(MIN_URL_LENGTH <= Len(v.s) /\ Len(v.s) <= MAX_URL_LENGTH)
  THEN Invalid("URL length must be between 3 and 2048 characters")
  ELSE
    LET url == Strip(v.s)
        parsed == urlparse(url)
        domain == StripPort(Lower(parsed.netloc))
    IN  IF UrlParseFails(url)
        THEN Invalid("Invalid URL format: Unable to parse URL: Invalid IPv6 URL")
        ELSE IF parsed.scheme = "" THEN Invalid("URL must include scheme (http/https)")
        ELSE IF parsed.scheme \notin ALLOWED_SCHEMES
        THEN Invalid("URL must use HTTP or HTTPS protocol")
        ELSE IF parsed.netloc = "" THEN Invalid("URL must include a valid domain")
        ELSE IF \E blocked \in BLOCKED_DOMAINS : Contains(domain, blocked)
        THEN SecurityViolation("Domain not allowed")
        ELSE IF Tld(domain) \in BLOCKED_TLDS
        THEN SecurityViolation("Invalid top-level domain")
        ELSE IF IsDottedQuad(domain) /\ is_private_ip(domain)
        THEN SecurityViolation("Private IP addresses not allowed")
        ELSE IF parsed.credentials
        THEN SecurityViolation("URLs containing credentials are not allowed")
        ELSE IF MatchedPatterns(url) # {}
        \* the pattern named is the first match in the set's iteration order
        THEN SecurityViolation("URL contains suspicious pattern: "
                                 \o (CHOOSE pattern \in MatchedPatterns(url) : TRUE))
        ELSE IF ~(Len(url) > 0 /\ \A i \in 1..Len(url) : Find(PRINTABLE, At(url, i)) > 0)
        THEN SecurityViolation("URL contains invalid characters")
        ELSE Valid

\* ------------------------------------------------------------------------
\* validate_expiry_days and normalize_expiry_days
\* ------------------------------------------------------------------------
\* a decimal literal: optional sign, digits, optionally a point and digits
DecimalBody(s) == IF Len(s) > 0 /\ At(s, 1) \in {"+", "-"} THEN Tail(s) ELSE s

IsIntLiteral(s) == AllDigits(DecimalBody(Strip(s)))

IsDecimalLiteral(s) ==
  LET b == DecimalBody(Strip(s))
      parts == Split(b, ".")
  IN  \/ AllDigits(b)
      \/ /\ Len(parts) = 2
         /\ Len(parts[1]) + Len(parts[2]) > 0
         /\ \A i \in 1..2 : \A j \in 1..Len(parts[i]) : IsDigit(At(parts[i], j))

\* float(days): [ok, neg, int_part, whole]; ok is FALSE where float() raises
FloatOf(days) ==
  CASE days.t = "int" ->
         [ok |-> TRUE, neg |-> days.n < 0, int_part |-> IF days.n < 0 THEN -days.n ELSE days.n,
          whole |-> TRUE]
    [] days.t = "float" ->
         LET a == IF days.tenths < 0 THEN -days.tenths ELSE days.tenths
         IN  [ok |-> TRUE, neg |-> days.tenths < 0, int_part |-> a \div 10, whole |-> a % 10 = 0]
    [] days.t = "str" ->
         IF ~IsDecimalLiteral(days.s)
         THEN [ok |-> FALSE, neg |-> FALSE, int_part |-> 0, whole |-> FALSE]
         ELSE LET st == Strip(days.s)
                  parts == Split(DecimalBody(st), ".")
              IN  [ok |-> TRUE, neg |-> At(st, 1) = "-", int_part |-> ToInt(parts[1]),
                   whole |-> Len(parts) = 1 \/ \A j \in 1..Len(parts[2]) : At(parts[2], j) = "0"]
    \* bool is a subclass of int: float(True) is 1.0
    [] days.t = "bool" ->
         [ok |-> TRUE, neg |-> FALSE, int_part |-> IF days.b THEN 1 ELSE 0, whole |-> TRUE]
    \* float() of a list raises TypeError
    [] OTHER -> [ok |-> FALSE, neg |-> FALSE, int_part |-> 0, whole |-> FALSE]

\* int(days_float): truncation toward zero
TruncOf(f) == IF f.neg THEN -f.int_part ELSE f.int_part

\* validate_expiry_days without the test for a whole number
validate_expiry_days_any_fraction(days) ==
  IF days.t = "none" THEN Invalid("Expiration days cannot be None")
  ELSE IF ~FloatOf(days).ok THEN Invalid("Invalid expiration days format")
  ELSE IF ~(MIN_EXPIRY_DAYS <= TruncOf(FloatOf(days)) /\ TruncOf(FloatOf(days)) <= MAX_EXPIRY_DAYS)
  THEN Invalid("Expiration must be between 1 and 3650 days")
  ELSE Valid

validate_expiry_days(days) ==
  IF days.t = "none" THEN Invalid("Expiration days cannot be None")
  ELSE IF ~FloatOf(days).ok THEN Invalid("Invalid expiration days format")
  ELSE IF ~FloatOf(days).whole THEN Invalid("Expiration days must be a whole number")
  ELSE IF ~(MIN_EXPIRY_DAYS <= TruncOf(FloatOf(days)) /\ TruncOf(FloatOf(days)) <= MAX_EXPIRY_DAYS)
  THEN Invalid("Expiration must be between 1 and 3650 days")
  ELSE Valid

\* the exception int(days) raises at line 326, "" when it returns: a string
\* that is no integer literal raises ValueError, a value that is no number
\* and no string raises TypeError
IntRaises(days) ==
  CASE days.t \in {"int", "float", "bool"} -> ""
    [] days.t = "str" -> IF IsIntLiteral(days.s) THEN "" ELSE "ValueError"
    [] OTHER -> "TypeError"

\* the exception that leaves normalize_expiry_days, "" when it returns:
\* validate_expiry_days catches everything, line 327 catches ValueError only
NormalizeRaises(days) ==
  IF ~validate_expiry_days(days).is_valid THEN ""
  ELSE IF IntRaises(days) = "ValueError" THEN ""
  ELSE IntRaises(days)

\* normalize_expiry_days without the call of validate_expiry_days: int() of
\* whatever number the input denotes
normalize_expiry_days_unvalidated(days) ==
  IF ~FloatOf(days).ok THEN DEFAULT_EXPIRY_DAYS
  ELSE IF days.t = "str" /\ ~IsIntLiteral(days.s) THEN DEFAULT_EXPIRY_DAYS
  ELSE TruncOf(FloatOf(days))

\* int(days) of a value the validator accepted: a string must be an integer
\* literal, "7.0" raises ValueError and the default is returned
normalize_expiry_days(days) ==
  IF ~validate_expiry_days(days).is_valid THEN DEFAULT_EXPIRY_DAYS
  ELSE IF days.t = "str" /\ ~IsIntLiteral(days.s) THEN DEFAULT_EXPIRY_DAYS
  ELSE TruncOf(FloatOf(days))

\* ------------------------------------------------------------------------
\* The table: a set of items, at most one per key (short_url, create_at)
\* ------------------------------------------------------------------------
Key(it) == <<it.short_url, it.create_at>>

HasKey(table, k) == \E r \in table : Key(r) = k

\* create_url_item, with current_time = int(time.time())
create_url_item(request, short_id, current_time) ==
  [short_url |-> short_id,
   create_at |-> current_time,
   original_url |-> request.original_url,
   expire_at |-> current_time + request.expires_in_days * SECONDS_PER_DAY,
   status |-> "active",
   clicks |-> 0,
   last_accessed |-> current_time,
   expiry_days |-> request.expires_in_days]

\* put_item without its ConditionExpression: the check never fails
ConditionalCheckNever(table, it) == FALSE

\* put_item(Item, ConditionExpression=Attr("short_url").not_exists()):
\* DynamoDB evaluates the condition on the stored item that has the key of
\* the new item, so the check fails exactly when (short_url, create_at) is
\* taken
ConditionalCheckFailed(table, it) == HasKey(table, Key(it))

\* an accepted put_item stores the item in place of any item with its key
put_item(table, it) == {r \in table : Key(r) # Key(it)} \cup {it}

\* query(KeyConditionExpression="short_url = :short_id", Limit=1): the items
\* of the partition in ascending order of the sort key create_at, cut to one
query(table, short_id) ==
  LET part == {r \in table : r.short_url = short_id}
  IN  IF part = {} THEN <<>>
      ELSE <<CHOOSE r \in part : \A q \in part : r.create_at <= q.create_at>>

\* update_item with :inc bound to 2
update_item_by_two(table, k, time) ==
  {IF Key(r) = k THEN [r EXCEPT !.clicks = @ + 2, !.last_accessed = time] ELSE r : r \in table}

\* update_item(Key, "SET clicks = clicks + :inc, last_accessed = :time"):
\* one atomic read-modify-write of the item that has the key; with no such
\* item, clicks is undefined in the expression and the call is rejected
update_item(table, k, time) ==
  {IF Key(r) = k THEN [r EXCEPT !.clicks = @ + 1, !.last_accessed = time] ELSE r : r \in table}

\* ------------------------------------------------------------------------
\* Responses
\* ------------------------------------------------------------------------
\* the caching headers of a response, "" for a header that is not sent
Headers(cache_control, pragma, expires) ==
  [Cache_Control |-> cache_control, Pragma |-> pragma, Expires |-> expires]

NoResponse ==
  [statusCode |-> 0, error |-> "", Location |-> "", short_id |-> "",
   original_url |-> "", expires_in_days |-> 0, headers |-> Headers("", "", "")]

\* lines 97-102 hold the headers
create_error_response(status_code, message) ==
  [NoResponse EXCEPT !.statusCode = status_code, !.error = message,
                     !.headers = Headers("no-cache, no-store, must-revalidate", "no-cache", "0")]

\* statusCode 200 with create_success_response as body; short_url is the
\* domain prefix followed by short_id.  Lines 258-264 hold the headers:
\* Cache-Control and Pragma, no Expires.
CreateSuccess(short_id, request) ==
  [NoResponse EXCEPT !.statusCode = 200, !.short_id = short_id,
                     !.original_url = request.original_url,
                     !.expires_in_days = request.expires_in_days,
                     !.headers = Headers("no-store", "no-cache", "")]

\* the 301 of either front door: the API Gateway shape (lines 410-419) and
\* the CloudFront shape (lines 422-432) carry the same Location and the
\* same three caching headers
RedirectResponse(it) ==
  [NoResponse EXCEPT !.statusCode = 301, !.Location = it.original_url,
                     !.headers = Headers("no-cache, no-store, must-revalidate", "no-cache", "0")]

\* str(e) of a botocore ClientError raised by a store call
CLIENT_ERROR_TEXT == "An error occurred (InternalServerError) when calling the operation"

\* ------------------------------------------------------------------------
\* Inputs
\* ------------------------------------------------------------------------
\* what a store call can do besides answering: raise ClientError (the
\* service rejected or failed the call) or raise another exception (botocore
\* raises BotoCoreError subclasses for connection failures and timeouts)
StoreFailures == {"ClientError", "Exception"}

\* the error codes of a ClientError that is not the failed condition
OtherCodes == {"InternalServerError"}

RandomInts == 0..MaxRandom

\* the identifier drawn from each first draw (the padding draw is 0)
IdOf == [r \in RandomInts |-> generate_short_id(ID_LENGTH, r, 0)]

ShortIds == {IdOf[r] : r \in RandomInts}

\* request bodies: a one-day link, a link of default expiry, a URL the
\* validator refuses, and a body without url
CreateBodies ==
  {[kind |-> "object", url |-> JStr("http://a.co"), expires_in_days |-> JInt(1)],
   [kind |-> "object", url |-> JStr("https://b.io/x"), expires_in_days |-> None],
   [kind |-> "object", url |-> JStr("javascript:alert(1)"), expires_in_days |-> JInt(1)],
   [kind |-> "object", url |-> None, expires_in_days |-> None]}

\* the day counts the expiry inputs are written from
ExpiryValues ==
  (-2..MaxSampleDays) \cup {MAX_EXPIRY_DAYS - 1, MAX_EXPIRY_DAYS, MAX_EXPIRY_DAYS + 1}

\* a raw expires_in_days value with the number it denotes, in tenths
Denotes(raw, tenths) == [raw |-> raw, numeric |-> TRUE, tenths |-> tenths]
NonNumeric(raw) == [raw |-> raw, numeric |-> FALSE, tenths |-> 0]

\* n and a half, away from zero, in tenths
AndAHalf(n) == IF n < 0 THEN 10 * n - 5 ELSE 10 * n + 5

\* the JSON values of the body's expires_in_days: absent or null, numbers,
\* numeric strings, and values that are no numbers.  float() takes true and
\* false for 1 and 0.
ExpiryInputs ==
  {Denotes(JInt(n), 10 * n) : n \in ExpiryValues}
  \cup {Denotes(JFloat(10 * n), 10 * n) : n \in ExpiryValues}
  \cup {Denotes(JFloat(AndAHalf(n)), AndAHalf(n)) : n \in ExpiryValues}
  \cup {Denotes(JStr(ToString(n)), 10 * n) : n \in ExpiryValues}
  \cup {Denotes(JStr(" " \o ToString(n) \o " "), 10 * n) : n \in ExpiryValues}
  \cup {Denotes(JStr(ToString(n) \o ".0"), 10 * n) : n \in ExpiryValues}
  \cup {Denotes(JStr(ToString(n) \o ".5"), AndAHalf(n)) : n \in ExpiryValues}
  \cup {Denotes(JBool(TRUE), 10), Denotes(JBool(FALSE), 0)}
  \cup {NonNumeric(None), NonNumeric(JList), NonNumeric(JStr("")), NonNumeric(JStr("abc")),
        NonNumeric(JStr("7 days")), NonNumeric(JStr("1.2.3"))}

\* an event whose body is None: json.loads(None) raises TypeError
NullBody == [kind |-> "null", url |-> None, expires_in_days |-> None]

\* an event without body is read as "{}" (line 115)
EmptyBody == [kind |-> "object", url |-> None, expires_in_days |-> None]

\* request bodies with a URL the validator accepts and each of the expiry
\* inputs as expires_in_days
ExpiryBodies ==
  {[kind |-> "object", url |-> JStr("http://a.co"), expires_in_days |-> input.raw] :
     input \in ExpiryInputs}

\* the url values of request bodies written with whitespace: around an
\* accepted URL, where str.strip() removes it, and inside it
PaddedUrls ==
  {"http://a.co", " http://a.co", "http://a.co ", "\thttp://a.co/x", "http://a.co/x\n",
   " http://a.co/x \n", "http://a.co/x y"}

PaddedBodies ==
  {[kind |-> "object", url |-> JStr(u), expires_in_days |-> None] : u \in PaddedUrls}

\* the bodies of all specifications
Bodies == CreateBodies \cup ExpiryBodies \cup PaddedBodies \cup {NullBody}

\* the clock advances by a second or by a day
TickSteps == {1, SECONDS_PER_DAY}

NoRequest == [original_url |-> "", expires_in_days |-> 0]
NoItem == create_url_item(NoRequest, "", 0)

\* ------------------------------------------------------------------------
\* State
\* ------------------------------------------------------------------------
VARIABLES
  store,         \* the table
  now,           \* the wall clock, in seconds
  ticks,         \* clock advances so far
  nreq,          \* requests received so far
  pc,            \* per invocation: "idle", "put_item", "check", "update_item"
  request,       \* create_short_url: the URLCreationRequest
  attempt,       \* create_short_url: the loop variable of the retry loop
  short_id,      \* redirect_url: the identifier extracted from the event
  item,          \* redirect_url: items[0] of the query
  current_time,  \* redirect_url: the time sampled after the lookup
  calls,         \* history: the store calls of the running request and how each ended
  known,         \* history: the Creates answered 200 with the identifier before the Redirect began
  returned,      \* the response returned last, with the history of its request
  created,       \* history: identifier, URL and expiry of every Create answered 200
  found,         \* history: per key, the lookups that returned the item
  applied,       \* history: per key, the update_item calls that succeeded
  probe          \* the pure function applied last, with its input and its result

vars ==
  <<store, now, ticks, nreq, pc, request, attempt, short_id, item, current_time,
    calls, known, returned, created, found, applied, probe>>

NoKey == <<"", 0>>

NoReturn ==
  [handler |-> "none", response |-> NoResponse, calls |-> <<>>, known |-> {}, key |-> NoKey]

\* no pure function has been applied
NoProbe == [fn |-> "none"]

Init ==
  /\ store = {}
  /\ now = 0
  /\ ticks = 0
  /\ nreq = 0
  /\ pc = [p \in Procs |-> "idle"]
  /\ request = [p \in Procs |-> NoRequest]
  /\ attempt = [p \in Procs |-> 0]
  /\ short_id = [p \in Procs |-> ""]
  /\ item = [p \in Procs |-> NoItem]
  /\ current_time = [p \in Procs |-> 0]
  /\ calls = [p \in Procs |-> <<>>]
  /\ known = [p \in Procs |-> {}]
  /\ returned = NoReturn
  /\ created = {}
  /\ found = <<>>
  /\ applied = <<>>
  /\ probe = NoProbe

\* a request is handled by an idle invocation; the invocations are
\* interchangeable and the first idle one takes it
Enter(p) ==
  /\ pc[p] = "idle"
  /\ \A q \in 1..(p - 1) : pc[q] # "idle"
  /\ nreq < MaxRequests
  /\ nreq' = nreq + 1

\* the handler returns resp after the store calls cs; its locals go out of
\* scope and the invocation is idle again.  The history of the request is
\* kept with the response: its calls, the Creates known when it began and
\* the key of the item its lookup returned.
Return(p, name, resp, cs, kn) ==
  /\ returned' = [handler |-> name, response |-> resp, calls |-> cs, known |-> kn,
                  key |-> IF item[p] = NoItem THEN NoKey ELSE Key(item[p])]
  /\ pc' = [pc EXCEPT ![p] = "idle"]
  /\ request' = [request EXCEPT ![p] = NoRequest]
  /\ attempt' = [attempt EXCEPT ![p] = 0]
  /\ short_id' = [short_id EXCEPT ![p] = ""]
  /\ item' = [item EXCEPT ![p] = NoItem]
  /\ current_time' = [current_time EXCEPT ![p] = 0]
  /\ calls' = [calls EXCEPT ![p] = <<>>]
  /\ known' = [known EXCEPT ![p] = {}]

\* a store call and how it ended: "ok" or the exception raised
Call(op, result) == [op |-> op, result |-> result]

\* the count kept for key k, 0 before the first
Count(f, k) == IF k \in DOMAIN f THEN f[k] ELSE 0

Bump(f, k) == [x \in DOMAIN f \cup {k} |-> IF x = k THEN Count(f, k) + 1 ELSE f[x]]

\* ------------------------------------------------------------------------
\* create_short_url
\* ------------------------------------------------------------------------
\* EarlyReturn without the test of is_valid
EarlyReturnUnvalidated(body) ==
  IF body.kind = "bad_json" THEN create_error_response(400, "Invalid JSON in request body")
  ELSE IF body.kind = "not_object"
  THEN create_error_response(400, "Request body must be a JSON object")
  ELSE IF body.kind = "null" THEN create_error_response(500, "Internal server error")
  ELSE IF ~Truthy(body.url) THEN create_error_response(400, "URL is required")
  ELSE NoResponse

\* lines 189-212: the response of an early return, NoResponse when the
\* request goes on to the retry loop.  A body that is not a JSON object
\* raises ValueError (400), an event whose body is None makes json.loads
\* raise TypeError (500, detail suppressed outside development).
EarlyReturn(body) ==
  IF body.kind = "bad_json" THEN create_error_response(400, "Invalid JSON in request body")
  ELSE IF body.kind = "not_object"
  THEN create_error_response(400, "Request body must be a JSON object")
  ELSE IF body.kind = "null" THEN create_error_response(500, "Internal server error")
  ELSE IF ~Truthy(body.url) THEN create_error_response(400, "URL is required")
  ELSE IF ~validate_url(body.url).is_valid
  THEN create_error_response(400, validate_url(body.url).error_message)
  ELSE NoResponse

\* EarlyReturn and normalize_expiry_days tabulated over the bodies
EarlyReturnOf == [body \in Bodies |-> EarlyReturn(body)]
DaysOf == [body \in Bodies |-> normalize_expiry_days(body.expires_in_days)]

\* lines 184-224
CreateRequest(p, body) ==
  /\ Enter(p)
  /\ IF EarlyReturnOf[body] # NoResponse
     THEN Return(p, "create_short_url", EarlyReturnOf[body], <<>>, {})
     ELSE /\ request' = [request EXCEPT ![p] =
                           [original_url |-> body.url.s, expires_in_days |-> DaysOf[body]]]
          /\ pc' = [pc EXCEPT ![p] = "put_item"]
          /\ UNCHANGED <<attempt, short_id, item, current_time, calls, known, returned>>
  /\ UNCHANGED <<store, now, ticks, probe, created, found, applied>>

\* lines 230-231: the item of one pass of the loop
NewItem(p, random_int) == create_url_item(request[p], IdOf[random_int], now)

\* lines 230-265: the conditional insert is accepted
CreatePutOk(p, random_int) ==
  /\ pc[p] = "put_item"
  /\ ~ConditionalCheckFailed(store, NewItem(p, random_int))
  /\ store' = put_item(store, NewItem(p, random_int))
  /\ created' = created \cup
       {[short_id |-> IdOf[random_int], original_url |-> request[p].original_url,
         create_at |-> NewItem(p, random_int).create_at,
         expire_at |-> NewItem(p, random_int).expire_at]}
  /\ Return(p, "create_short_url", CreateSuccess(IdOf[random_int], request[p]),
            Append(calls[p], Call("put_item", "ok")), {})
  /\ UNCHANGED <<now, ticks, probe, nreq, found, applied>>

\* OnClientError with the last pass taken for pass number MAX_RETRIES
OnClientErrorOffByOne(code, att) ==
  IF code # "ConditionalCheckFailedException"
  THEN [retry |-> FALSE,
        resp |-> create_error_response(500, "DynamoDB error: " \o CLIENT_ERROR_TEXT)]
  ELSE IF att = MAX_RETRIES
  THEN [retry |-> FALSE,
        resp |-> create_error_response(500, "Unable to generate unique short URL")]
  ELSE [retry |-> TRUE, resp |-> NoResponse]

\* OnClientError without the test of the error code
OnClientErrorAnyCode(code, att) ==
  IF att = MAX_RETRIES - 1
  THEN [retry |-> FALSE,
        resp |-> create_error_response(500, "Unable to generate unique short URL")]
  ELSE [retry |-> TRUE, resp |-> NoResponse]

\* lines 267-281, the except clause of the loop body: what becomes of a
\* ClientError with the given error code on pass number att.  retry is
\* TRUE when the loop goes on; otherwise resp is the response that the
\* URLCreationError raised here is turned into at lines 283-289.
OnClientError(code, att) ==
  IF code # "ConditionalCheckFailedException"
  THEN [retry |-> FALSE,
        resp |-> create_error_response(500, "DynamoDB error: " \o CLIENT_ERROR_TEXT)]
  ELSE IF att = MAX_RETRIES - 1
  THEN [retry |-> FALSE,
        resp |-> create_error_response(500, "Unable to generate unique short URL")]
  ELSE [retry |-> TRUE, resp |-> NoResponse]

\* lines 230-236 and 267-289: put_item raises ClientError, the failed
\* condition when the key is taken, or any other code
CreatePutClientError(p, random_int, code) ==
  /\ pc[p] = "put_item"
  /\ code = "ConditionalCheckFailedException" =>
       ConditionalCheckFailed(store, NewItem(p, random_int))
  /\ IF OnClientError(code, attempt[p]).retry
     THEN /\ attempt' = [attempt EXCEPT ![p] = @ + 1]
          /\ calls' = [calls EXCEPT ![p] = Append(@, Call("put_item", code))]
          /\ UNCHANGED <<pc, request, short_id, item, current_time, known, returned>>
     ELSE Return(p, "create_short_url", OnClientError(code, attempt[p]).resp,
                 Append(calls[p], Call("put_item", code)), {})
  /\ UNCHANGED <<store, now, ticks, probe, nreq, created, found, applied>>

\* lines 230-236 and 307-318: put_item raises an exception that is not a
\* ClientError
CreatePutException(p, random_int) ==
  /\ pc[p] = "put_item"
  /\ Return(p, "create_short_url", create_error_response(500, "Internal server error"),
            Append(calls[p], Call("put_item", "Exception")), {})
  /\ UNCHANGED <<store, now, ticks, probe, nreq, created, found, applied>>

\* ------------------------------------------------------------------------
\* redirect_url
\* ------------------------------------------------------------------------
RECURSIVE StripSlash(_)
\* s.strip("/")
StripSlash(s) ==
  IF Len(s) > 0 /\ At(s, 1) = "/" THEN StripSlash(Tail(s))
  ELSE IF Len(s) > 0 /\ At(s, Len(s)) = "/" THEN StripSlash(SubSeq(s, 1, Len(s) - 1))
  ELSE s

\* lines 336-346: the identifier of a CloudFront event is its uri, that of
\* an API Gateway event its path parameter or else its path
ExtractShortId(ev) ==
  IF ev.kind = "cloudfront" THEN StripSlash(ev.uri)
  ELSE IF ev.shortUrl # "" THEN ev.shortUrl
  ELSE StripSlash(ev.path)

RedirectEvents ==
  {[kind |-> "api_gateway", shortUrl |-> id, path |-> "/" \o id, uri |-> ""] : id \in ShortIds}
  \cup {[kind |-> "cloudfront", shortUrl |-> "", path |-> "", uri |-> "/" \o id] : id \in ShortIds}
  \cup {[kind |-> "api_gateway", shortUrl |-> "", path |-> "/", uri |-> ""]}

\* ExtractShortId tabulated over the events
ShortIdOf == [ev \in RedirectEvents |-> ExtractShortId(ev)]

\* Expired with the comparison turned round
ExpiredReversed(it, time) == it.expire_at > time

\* line 371
Expired(it, time) == it.expire_at < time

\* UpdateClicks as a write of the count read at the lookup plus one
UpdateClicksFromRead(table, it, time) ==
  {IF Key(r) = Key(it) THEN [r EXCEPT !.clicks = it.clicks + 1, !.last_accessed = time] ELSE r :
     r \in table}

\* lines 387-391: the update addresses the item read by its key and carries
\* the time sampled at line 367
UpdateClicks(table, it, time) == update_item(table, Key(it), time)

\* the Creates answered 200 with the identifier so far
KnownFor(id) == {c \in created : c.short_id = id}

\* lines 331-366: extract the identifier and look it up
RedirectLookup(p, ev) ==
  LET id == ShortIdOf[ev]
      items == query(store, id)
  IN  /\ Enter(p)
      /\ IF id = ""
         THEN /\ Return(p, "redirect_url", create_error_response(400, "Short URL is required"),
                        <<>>, {})
              /\ UNCHANGED found
         ELSE IF items = <<>>
         THEN /\ Return(p, "redirect_url", create_error_response(404, "URL not found"),
                        <<Call("query", "ok")>>, KnownFor(id))
              /\ UNCHANGED found
         ELSE /\ pc' = [pc EXCEPT ![p] = "check"]
              /\ calls' = [calls EXCEPT ![p] = <<Call("query", "ok")>>]
              /\ known' = [known EXCEPT ![p] = KnownFor(id)]
              /\ short_id' = [short_id EXCEPT ![p] = id]
              /\ item' = [item EXCEPT ![p] = items[1]]
              /\ found' = Bump(found, Key(items[1]))
              /\ UNCHANGED <<request, attempt, current_time, returned>>
      /\ UNCHANGED <<store, now, ticks, probe, created, applied>>

\* the query raises: ClientError at lines 434-443, anything else at 445-451
RedirectLookupError(p, ev, failure) ==
  /\ Enter(p)
  /\ ShortIdOf[ev] # ""
  /\ Return(p, "redirect_url",
            IF failure = "ClientError"
            THEN create_error_response(500, "Error retrieving URL")
            ELSE create_error_response(400, "Invalid request"),
            <<Call("query", failure)>>, KnownFor(ShortIdOf[ev]))
  /\ UNCHANGED <<store, now, ticks, probe, created, found, applied>>

\* lines 366-383: sample the clock and check the expiry of the item read
RedirectCheck(p) ==
  /\ pc[p] = "check"
  /\ IF Expired(item[p], now)
     THEN Return(p, "redirect_url", create_error_response(410, "URL has expired"),
                 calls[p], known[p])
     ELSE /\ pc' = [pc EXCEPT ![p] = "update_item"]
          /\ current_time' = [current_time EXCEPT ![p] = now]
          /\ UNCHANGED <<request, attempt, short_id, item, calls, known, returned>>
  /\ UNCHANGED <<store, now, ticks, probe, nreq, created, found, applied>>

\* RedirectUpdate over a store whose update_item creates the item that is
\* missing (an upsert)
RedirectUpdateUpsert(p) ==
  /\ pc[p] = "update_item"
  /\ store' = IF HasKey(store, Key(item[p]))
               THEN UpdateClicks(store, item[p], current_time[p])
               ELSE store \cup {[item[p] EXCEPT !.clicks = 1,
                                                !.last_accessed = current_time[p]]}
  /\ applied' = Bump(applied, Key(item[p]))
  /\ Return(p, "redirect_url", RedirectResponse(item[p]),
            Append(calls[p], Call("update_item", "ok")), known[p])
  /\ UNCHANGED <<now, ticks, probe, nreq, created, found>>

\* lines 386-432: the store answers the update_item call.  It applies the
\* update when the key is in the table and rejects it otherwise; the
\* rejection is a ClientError, which lines 392-397 swallow.
RedirectUpdate(p) ==
  /\ pc[p] = "update_item"
  /\ IF HasKey(store, Key(item[p]))
     THEN /\ store' = UpdateClicks(store, item[p], current_time[p])
          /\ applied' = Bump(applied, Key(item[p]))
          /\ Return(p, "redirect_url", RedirectResponse(item[p]),
                    Append(calls[p], Call("update_item", "ok")), known[p])
     ELSE /\ Return(p, "redirect_url", RedirectResponse(item[p]),
                    Append(calls[p], Call("update_item", "ClientError")), known[p])
          /\ UNCHANGED <<store, applied>>
  /\ UNCHANGED <<now, ticks, probe, nreq, created, found>>

\* update_item raises without having applied the update: a ClientError is
\* swallowed at lines 392-397, any other exception leaves the try block
\* and is answered at lines 445-451
RedirectUpdateError(p, failure) ==
  /\ pc[p] = "update_item"
  /\ Return(p, "redirect_url",
            IF failure = "ClientError"
            THEN RedirectResponse(item[p])
            ELSE create_error_response(400, "Invalid request"),
            Append(calls[p], Call("update_item", failure)), known[p])
  /\ UNCHANGED <<store, now, ticks, probe, nreq, created, found, applied>>

\* ------------------------------------------------------------------------
\* The clock
\* ------------------------------------------------------------------------
Tick(d) ==
  /\ ticks < MaxTicks
  /\ ticks' = ticks + 1
  /\ now' = now + d
  /\ UNCHANGED <<store, nreq, pc, request, attempt, short_id, item, current_time,
                 calls, known, returned, created, found, applied, probe>>

Next ==
  \/ \E p \in Procs, body \in CreateBodies : CreateRequest(p, body)
  \/ \E p \in Procs, r \in RandomInts : CreatePutOk(p, r)
  \/ \E p \in Procs, r \in RandomInts :
       \E code \in {"ConditionalCheckFailedException"} \cup OtherCodes :
         CreatePutClientError(p, r, code)
  \/ \E p \in Procs, r \in RandomInts : CreatePutException(p, r)
  \/ \E p \in Procs, ev \in RedirectEvents : RedirectLookup(p, ev)
  \/ \E p \in Procs, ev \in RedirectEvents, f \in StoreFailures : RedirectLookupError(p, ev, f)
  \/ \E p \in Procs : RedirectCheck(p)
  \/ \E p \in Procs : RedirectUpdate(p)
  \/ \E p \in Procs, f \in StoreFailures : RedirectUpdateError(p, f)
  \/ \E d \in TickSteps : Tick(d)

Spec == Init /\ [][Next]_vars

\* ------------------------------------------------------------------------
\* The handlers beside the purge of expired records.  No handler deletes a
\* record; expire_at is the attribute an external TTL process of the table
\* goes by, deleting a record at some time after its expire_at has passed.
\* ------------------------------------------------------------------------
Purge ==
  /\ \E r \in store :
       /\ r.expire_at < now
       /\ store' = store \ {r}
  /\ UNCHANGED <<now, ticks, nreq, pc, request, attempt, short_id, item, current_time,
                 calls, known, returned, created, found, applied, probe>>

PurgeNext ==
  \/ Next
  \/ Purge

PurgeSpec == Init /\ [][PurgeNext]_vars

\* ------------------------------------------------------------------------
\* lambda_handler: the entry point routes an event to a handler
\* ------------------------------------------------------------------------
\* an API Gateway proxy event; a GET carries the identifier as path
\* parameter, a body that is absent is read as "{}".  requestContext and
\* pathParameters are "object", "absent" (no such key) or "null".
ApiEvent(method, path, shortUrl, body) ==
  [kind |-> "api_gateway", httpMethod |-> method, path |-> path, shortUrl |-> shortUrl,
   uri |-> "", body |-> body, requestContext |-> "object",
   pathParameters |-> IF shortUrl = "" THEN "absent" ELSE "object"]

\* a CloudFront (edge) event, Records[0].cf.request.uri: it has no
\* httpMethod and no path key, so event.get gives None and ""
EdgeEvent(uri) ==
  [kind |-> "cloudfront", httpMethod |-> "None", path |-> "", shortUrl |-> "", uri |-> uri,
   body |-> [kind |-> "absent"], requestContext |-> "absent", pathParameters |-> "absent"]

LambdaEvents ==
  {ApiEvent("POST", "/urls", "", body) : body \in CreateBodies}
  \cup {ApiEvent("GET", "/" \o id, id, [kind |-> "absent"]) : id \in ShortIds}
  \cup {ApiEvent("GET", "/", "", [kind |-> "absent"]),
        ApiEvent("GET", "/urls", "", [kind |-> "absent"]),
        ApiEvent("POST", "/" \o IdOf[0], IdOf[0], [kind |-> "absent"]),
        ApiEvent("DELETE", "/urls", "", [kind |-> "absent"])}
  \cup {EdgeEvent("/" \o id) : id \in ShortIds}

\* events with fields missing or null: requestContext null or missing,
\* pathParameters null, body null or missing
DegenerateEvents ==
  {[ApiEvent("POST", "/urls", "", CHOOSE body \in CreateBodies : body.url = JStr("http://a.co"))
      EXCEPT !.requestContext = "null"],
   [ApiEvent("GET", "/" \o IdOf[0], IdOf[0], [kind |-> "absent"])
      EXCEPT !.requestContext = "null"],
   [ApiEvent("GET", "/" \o IdOf[0], IdOf[0], [kind |-> "absent"])
      EXCEPT !.requestContext = "absent"],
   [ApiEvent("GET", "/" \o IdOf[0], "", [kind |-> "absent"])
      EXCEPT !.pathParameters = "null"],
   ApiEvent("POST", "/urls", "", NullBody),
   ApiEvent("POST", "/urls", "", [kind |-> "absent"])}

\* the outcome of a call that an exception leaves: no response
Raised(exception) == [NoResponse EXCEPT !.error = exception]

\* lines 465-488: the handler the event is passed to.  Line 465 is outside
\* the try block: event.get("requestContext", {}) is None for a null
\* requestContext and None.get raises AttributeError.
lambda_handler(event) ==
  IF event.requestContext = "null" THEN "AttributeError"
  ELSE IF event.httpMethod = "POST" /\ event.path = "/urls" THEN "create_short_url"
  ELSE IF event.httpMethod = "GET" /\ event.path # "/urls" THEN "redirect_url"
  ELSE "method_not_allowed"

\* the event as redirect_url reads it
RedirectEventOf(event) ==
  [kind |-> event.kind, shortUrl |-> event.shortUrl, path |-> event.path, uri |-> event.uri]

\* line 115: the body parse_request_body reads
BodyOf(event) == IF event.body.kind = "absent" THEN EmptyBody ELSE event.body

\* line 480
LambdaCreate(p, event) ==
  /\ lambda_handler(event) = "create_short_url"
  /\ CreateRequest(p, BodyOf(event))

\* line 482
LambdaRedirect(p, event) ==
  /\ lambda_handler(event) = "redirect_url"
  /\ event.pathParameters # "null"
  /\ RedirectLookup(p, RedirectEventOf(event))

LambdaRedirectError(p, event, failure) ==
  /\ lambda_handler(event) = "redirect_url"
  /\ event.pathParameters # "null"
  /\ RedirectLookupError(p, RedirectEventOf(event), failure)

\* line 482 with lines 341-342: event.get("pathParameters", {}) is None for
\* null pathParameters, None.get raises AttributeError inside the try block
\* of redirect_url and lines 445-451 answer it
LambdaRedirectRaise(p, event) ==
  /\ lambda_handler(event) = "redirect_url"
  /\ event.pathParameters = "null"
  /\ Enter(p)
  /\ Return(p, "redirect_url", create_error_response(400, "Invalid request"), <<>>, {})
  /\ UNCHANGED <<store, now, ticks, probe, created, found, applied>>

\* line 465 raises: the exception leaves lambda_handler
LambdaRaise(p, event) ==
  /\ lambda_handler(event) = "AttributeError"
  /\ Enter(p)
  /\ Return(p, "lambda_handler", Raised("AttributeError"), <<>>, {})
  /\ UNCHANGED <<store, now, ticks, probe, created, found, applied>>

\* lines 483-488
LambdaReject(p, event) ==
  /\ lambda_handler(event) = "method_not_allowed"
  /\ Enter(p)
  /\ Return(p, "lambda_handler",
            create_error_response(405, "Method not allowed or invalid path"), <<>>, {})
  /\ UNCHANGED <<store, now, ticks, probe, created, found, applied>>

HandlerNext ==
  \/ \E p \in Procs, event \in LambdaEvents \cup DegenerateEvents : LambdaCreate(p, event)
  \/ \E p \in Procs, event \in LambdaEvents \cup DegenerateEvents : LambdaRedirect(p, event)
  \/ \E p \in Procs, event \in LambdaEvents \cup DegenerateEvents, f \in StoreFailures :
       LambdaRedirectError(p, event, f)
  \/ \E p \in Procs, event \in LambdaEvents \cup DegenerateEvents : LambdaReject(p, event)
  \/ \E p \in Procs, event \in LambdaEvents \cup DegenerateEvents :
       LambdaRedirectRaise(p, event)
  \/ \E p \in Procs, event \in LambdaEvents \cup DegenerateEvents : LambdaRaise(p, event)
  \/ \E p \in Procs, r \in RandomInts : CreatePutOk(p, r)
  \/ \E p \in Procs, r \in RandomInts :
       \E code \in {"ConditionalCheckFailedException"} \cup OtherCodes :
         CreatePutClientError(p, r, code)
  \/ \E p \in Procs, r \in RandomInts : CreatePutException(p, r)
  \/ \E p \in Procs : RedirectCheck(p)
  \/ \E p \in Procs : RedirectUpdate(p)
  \/ \E p \in Procs, f \in StoreFailures : RedirectUpdateError(p, f)
  \/ \E d \in TickSteps : Tick(d)

HandlerSpec == Init /\ [][HandlerNext]_vars

\* ------------------------------------------------------------------------
\* create_short_url over its inputs: the Create of an accepted URL whose
\* expires_in_days is any of the raw values, or of a URL written with
\* whitespace, with the clock running and the store failing or not.  A
\* behaviour holds one Create.
\* ------------------------------------------------------------------------
\* lines 184-224 for the first request of the behaviour
CreateExpiry(p, body) ==
  /\ nreq = 0
  /\ CreateRequest(p, body)

CreateNext ==
  \/ \E p \in Procs, body \in ExpiryBodies \cup PaddedBodies : CreateExpiry(p, body)
  \/ \E p \in Procs, r \in RandomInts : CreatePutOk(p, r)
  \/ \E p \in Procs, r \in RandomInts :
       \E code \in {"ConditionalCheckFailedException"} \cup OtherCodes :
         CreatePutClientError(p, r, code)
  \/ \E p \in Procs, r \in RandomInts : CreatePutException(p, r)
  \/ \E d \in TickSteps : Tick(d)

CreateSpec == Init /\ [][CreateNext]_vars

\* ------------------------------------------------------------------------
\* The pure functions, applied to drawn inputs: normalize_expiry_days,
\* validate_url and generate_short_id.  An input is drawn together with what
\* it denotes, so that the result can be held against the input as written.
\* A behaviour applies one function to one input.
\* ------------------------------------------------------------------------
\* lines 215-216: days_to_expire = normalize_expiry_days(raw_expiry_days)
NormalizeExpiry(input) ==
  /\ probe = NoProbe
  /\ probe' = [fn |-> "normalize_expiry_days", arg |-> input,
               valid |-> validate_expiry_days(input.raw).is_valid,
               raised |-> NormalizeRaises(input.raw),
               result |-> normalize_expiry_days(input.raw)]
  /\ UNCHANGED <<store, now, ticks, nreq, pc, request, attempt, short_id, item, current_time,
                 calls, known, returned, created, found, applied>>

\* the hosts a URL input is written with: each blocklisted token as the
\* host, inside a longer host and, for the IPv6 loopback, in the brackets a
\* URL wants around an IPv6 address; and hosts free of every token
BlockedHosts ==
  {[host |-> token, token |-> token] : token \in BLOCKED_DOMAINS}
  \cup {[host |-> "my" \o token \o ".io", token |-> token] : token \in BLOCKED_DOMAINS}
  \cup {[host |-> "[::1]", token |-> "::1"]}

FreeHosts == {"a.co", "example.org"}

UrlPorts == {"", ":8080"}

\* the substrings the URL text must not contain, a backslash being one
\* character
DangerousSubstrings ==
  {"..//", "@", "data:", "javascript:", "vbscript:", "file:", "\\", "0x", "%00", "%0d", "%0a"}

\* a URL with what it was written from: its host, the blocklisted token in
\* the host and the dangerous substring in its path ("" for none)
UrlInput(url, host, token, marker) ==
  [url |-> url, host |-> host, token |-> token, marker |-> marker]

UrlInputs ==
  {UrlInput(scheme \o "://" \o h.host \o port \o path, h.host, h.token, "") :
     scheme \in ALLOWED_SCHEMES, h \in BlockedHosts, port \in UrlPorts, path \in {"", "/x"}}
  \cup {UrlInput(scheme \o "://" \o host \o port \o path, host, "", "") :
          scheme \in ALLOWED_SCHEMES, host \in FreeHosts, port \in UrlPorts, path \in {"", "/x"}}
  \cup {UrlInput("https://" \o host \o before \o marker \o "q", host, "", marker) :
          host \in FreeHosts, before \in {"/p", "/?u="}, marker \in DangerousSubstrings}

\* line 202: is_valid, error_message = validate_url(original_url)
ValidateUrl(input) ==
  /\ probe = NoProbe
  /\ probe' = [fn |-> "validate_url", arg |-> input, result |-> validate_url(JStr(input.url))]
  /\ UNCHANGED <<store, now, ticks, nreq, pc, request, attempt, short_id, item, current_time,
                 calls, known, returned, created, found, applied>>

\* the lengths asked of generate_short_id and the two uuid4().int draws: a
\* draw that has run out of base-62 digits after none, one, two or five of
\* them, and one that has six
Lengths == -1..MaxLength

Draws == {0, 1, 61, 62, 3843, 3844, 916132831, 916132832, 2147483647}

\* lines 73-91: the ValueError of a length below 1, or the identifier
GenerateResult(length, random_int, padding_uuid) ==
  IF length < 1 THEN [raised |-> "ValueError", short_id |-> ""]
  ELSE [raised |-> "", short_id |-> generate_short_id(length, random_int, padding_uuid)]

\* line 230, with the length as a parameter: short_id = generate_short_id(length)
GenerateShortId(length, random_int, padding_uuid) ==
  /\ probe = NoProbe
  /\ probe' = [fn |-> "generate_short_id",
               arg |-> [length |-> length, random_int |-> random_int,
                        padding_uuid |-> padding_uuid],
               result |-> GenerateResult(length, random_int, padding_uuid)]
  /\ UNCHANGED <<store, now, ticks, nreq, pc, request, attempt, short_id, item, current_time,
                 calls, known, returned, created, found, applied>>

FunctionsNext ==
  \/ \E input \in ExpiryInputs : NormalizeExpiry(input)
  \/ \E input \in UrlInputs : ValidateUrl(input)
  \/ \E length \in Lengths, random_int \in Draws, padding_uuid \in Draws :
       GenerateShortId(length, random_int, padding_uuid)

FunctionsSpec == Init /\ [][FunctionsNext]_vars

\* ------------------------------------------------------------------------
\* Claims
\* ------------------------------------------------------------------------
\* the stored item with key k
ItemAt(table, k) == CHOOSE r \in table : Key(r) = k

\* the response returned last came from the handler named
Returned(name) == returned.handler = name

\* C1: after any interleaving of Creates the store never holds two records
\* with the same short_id: the conditional insert conflicts whenever a
\* record with that short_id exists, whatever its created_at.
C1_UniqueShortId ==
  \A r1, r2 \in store : r1.short_url = r2.short_url => r1 = r2

\* C2: for every Create answered 200 with identifier X for URL U, every
\* later Redirect on X whose lookup succeeds and that runs while
\* now <= expires_at of that record returns 301 with Location U, whatever
\* other requests did before or in between.  (A Redirect whose update_item
\* raised something other than ClientError is set aside here; that
\* failure is the subject of C7.)
C2_RedirectServesCreated ==
  (/\ Returned("redirect_url")
   /\ Len(returned.calls) >= 1
   /\ returned.calls[1] = Call("query", "ok")
   /\ \A i \in 1..Len(returned.calls) : returned.calls[i].result # "Exception")
  => \A c \in returned.known :
       now <= c.expire_at =>
         /\ returned.response.statusCode = 301
         /\ returned.response.Location = c.original_url

\* the store calls of a request that are conditional inserts, and how the
\* inserts before the last one ended
AllPuts(cs) == \A i \in 1..Len(cs) : cs[i].op = "put_item"
AllConflicts(cs) == \A i \in 1..Len(cs) : cs[i] = Call("put_item", "ConditionalCheckFailedException")

\* C3: one Create issues at most 3 conditional inserts; a conflict on
\* attempt 1 or 2 leads to another attempt; a conflict on attempt 3 ends
\* the request with 500 'Unable to generate unique short URL', and the
\* request has then stored no record.
C3_BoundedRetries ==
  /\ \A p \in Procs :
       pc[p] = "put_item" =>
         /\ Len(calls[p]) <= 2
         /\ Len(calls[p]) = attempt[p]
         /\ AllConflicts(calls[p])
  /\ Returned("create_short_url") =>
       /\ Len(returned.calls) <= 3
       /\ AllPuts(returned.calls)
       /\ \A i \in 1..Len(returned.calls) :
            returned.calls[i].result = "ConditionalCheckFailedException" =>
              \/ i < Len(returned.calls)
              \/ /\ i = 3
                 /\ returned.response.statusCode = 500
                 /\ returned.response.error = "Unable to generate unique short URL"
                 /\ AllConflicts(returned.calls)

\* a Create has ended on its third conflict
C3_Witness ==
  /\ Returned("create_short_url")
  /\ Len(returned.calls) = 3
  /\ AllConflicts(returned.calls)
  /\ returned.response.error = "Unable to generate unique short URL"

\* C4: a conditional insert that fails with a store error other than the
\* conflict, on attempt 1, 2 or 3, is the last insert of the Create, and
\* the Create returns 500.
C4_StoreErrorEndsCreate ==
  /\ \A p \in Procs :
       \A i \in 1..Len(calls[p]) :
         pc[p] = "put_item" => calls[p][i].result = "ConditionalCheckFailedException"
  /\ Returned("create_short_url") =>
       \A i \in 1..Len(returned.calls) :
         returned.calls[i].result \notin {"ok", "ConditionalCheckFailedException"} =>
           /\ i = Len(returned.calls)
           /\ returned.response.statusCode = 500

\* a Create has ended on a store error of its third attempt
C4_Witness ==
  /\ Returned("create_short_url")
  /\ Len(returned.calls) = 3
  /\ returned.calls[3].result \in OtherCodes \cup {"Exception"}
  /\ returned.response.statusCode = 500

\* the bodies whose url is present and refused by validate_url
InvalidUrlBodies ==
  {body \in CreateBodies :
     body.kind = "object" /\ Truthy(body.url) /\ ~validate_url(body.url).is_valid}

\* C5: when URL validation fails, Create answers 400 and performs no store
\* call: the store is the same before and after the request.
C5_InvalidUrlNoStore ==
  [][\A p \in Procs, body \in InvalidUrlBodies :
       CreateRequest(p, body) =>
         /\ pc'[p] = "idle"
         /\ returned'.handler = "create_short_url"
         /\ returned'.response.statusCode = 400
         /\ returned'.calls = <<>>
         /\ store' = store]_vars

\* a Create was refused for its scheme while the store held a record
C5_Witness ==
  /\ Returned("create_short_url")
  /\ returned.response.statusCode = 400
  /\ returned.response.error = "URL must use HTTP or HTTPS protocol"
  /\ store # {}

\* C6: a Redirect whose looked-up record has expire_at < current time
\* returns 410 'URL has expired', issues no increment and leaves clicks and
\* last_accessed of every record as they were.
C6_ExpiredNoIncrement ==
  [][\A p \in Procs :
       /\ (pc[p] = "idle" /\ pc'[p] = "check") => store' = store
       /\ (pc[p] = "check" /\ pc'[p] # "check" /\ item[p].expire_at < now) =>
            /\ pc'[p] = "idle"
            /\ returned'.handler = "redirect_url"
            /\ returned'.response.statusCode = 410
            /\ returned'.response.error = "URL has expired"
            /\ \A i \in 1..Len(returned'.calls) : returned'.calls[i].op # "update_item"
            /\ store' = store]_vars

\* a Redirect has answered 410 for a record that is in the store
C6_Witness ==
  /\ Returned("redirect_url")
  /\ returned.response.statusCode = 410
  /\ HasKey(store, returned.key)
  /\ ItemAt(store, returned.key).expire_at < now

\* the Redirect returned last saw its update_item call fail
UpdateFailed ==
  /\ Returned("redirect_url")
  /\ Len(returned.calls) = 2
  /\ returned.calls[2].op = "update_item"
  /\ returned.calls[2].result # "ok"

\* C7: if the increment_clicks store call fails during a Redirect on a
\* found, unexpired record, the Redirect still returns 301 with Location
\* equal to the stored original_url.
C7_IncrementFailureSwallowed ==
  UpdateFailed =>
    /\ returned.response.statusCode = 301
    /\ returned.response.Location = ItemAt(store, returned.key).original_url

\* invocation p takes the step that ends its Redirect at the update_item call
EndsAtUpdate(p) == pc[p] = "update_item" /\ pc'[p] = "idle"

Clicks(table, k) == ItemAt(table, k).clicks

\* C8: every Redirect on a valid, unexpired identifier that returns 301
\* increases that record's clicks by exactly 1, also when its increment
\* store call fails.
C8_EveryRedirectCounts ==
  [][\A p \in Procs :
       (EndsAtUpdate(p) /\ returned'.response.statusCode = 301) =>
         Clicks(store', Key(item[p])) = Clicks(store, Key(item[p])) + 1]_vars

\* C8 as amended: a Redirect on a valid, unexpired identifier whose
\* increment store call succeeds returns 301 and increases that record's
\* clicks by exactly 1, leaving every other record alone; a Redirect whose
\* increment store call fails leaves clicks unchanged.
C8_SuccessfulIncrementCounts ==
  [][\A p \in Procs :
       EndsAtUpdate(p) =>
         IF returned'.calls[Len(returned'.calls)] = Call("update_item", "ok")
         THEN /\ returned'.response.statusCode = 301
              /\ Clicks(store', Key(item[p])) = Clicks(store, Key(item[p])) + 1
              /\ \A r \in store : Key(r) # Key(item[p]) => r \in store'
         ELSE store' = store]_vars

\* a Redirect has returned 301 after its increment was applied
C8_Witness ==
  /\ Returned("redirect_url")
  /\ returned.response.statusCode = 301
  /\ returned.calls[Len(returned.calls)] = Call("update_item", "ok")
  /\ Clicks(store, returned.key) >= 1

\* C9: under every interleaving of Redirects of one identifier no
\* increment is lost: clicks of a record equals the number of update_item
\* calls on it that succeeded, never decreases, and never exceeds the
\* number of lookups that returned the record.
C9_NoLostIncrement ==
  [][/\ \A r \in store' :
          /\ r.clicks = Count(applied', Key(r))
          /\ r.clicks <= Count(found', Key(r))
     /\ \A r \in store :
          /\ HasKey(store', Key(r))
          /\ Clicks(store', Key(r)) >= r.clicks]_vars

\* a Redirect is about to increment a record that another Redirect has
\* incremented since the first one read it
C9_Witness ==
  \E p \in Procs :
    /\ pc[p] = "update_item"
    /\ HasKey(store, Key(item[p]))
    /\ Clicks(store, Key(item[p])) > item[p].clicks

\* C10: once a record is stored, no Create or Redirect changes its
\* short_id, created_at, original_url, expires_at or status; only clicks
\* and last_accessed are ever modified, and no record is deleted or
\* overwritten.
C10_RecordsImmutable ==
  [][\A r \in store :
       \E r2 \in store' :
         r2 = [r EXCEPT !.clicks = r2.clicks, !.last_accessed = r2.last_accessed]]_vars

\* a stored record has been counted on, next to another record
C10_Witness ==
  \E r \in store :
    /\ r.clicks >= 1
    /\ r.last_accessed > r.create_at
    /\ Cardinality(store) >= 2

\* C11: Redirect failure mapping: an empty identifier yields 400 with no
\* store access; an identifier with no stored record yields 404 'URL not
\* found'; a store error on the lookup yields 500; and in each of the three
\* cases no record's clicks or last_accessed changes.
C11_RedirectFailureMapping ==
  [][\A p \in Procs, ev \in RedirectEvents :
       /\ (RedirectLookup(p, ev) /\ ShortIdOf[ev] = "") =>
            /\ returned'.response.statusCode = 400
            /\ returned'.calls = <<>>
            /\ store' = store
       /\ (RedirectLookup(p, ev) /\ ShortIdOf[ev] # "" /\ query(store, ShortIdOf[ev]) = <<>>) =>
            /\ returned'.response.statusCode = 404
            /\ returned'.response.error = "URL not found"
            /\ store' = store
       /\ \A f \in StoreFailures :
            RedirectLookupError(p, ev, f) =>
              /\ returned'.response.statusCode = 500
              /\ store' = store]_vars

\* the pure function applied last
Applied(fn) == probe.fn = fn

\* what the claims call a bad expiry input: no number, negative, zero, not
\* integer-valued or above 3650
BadExpiry(input) ==
  \/ ~input.numeric
  \/ input.tenths <= 0
  \/ input.tenths % 10 # 0
  \/ input.tenths > 10 * 3650

C13_AcceptedReturnsInteger ==
  (Applied("normalize_expiry_days") /\ ~BadExpiry(probe.arg)) =>
    /\ probe.valid
    /\ probe.result = probe.arg.tenths \div 10

\* a message of the validator's URLSecurityError class, as line 207 words it
IsSecurityMessage(msg) ==
  LET prefix == "Security violation: "
  IN  Len(msg) >= Len(prefix) /\ SubSeq(msg, 1, Len(prefix)) = prefix

\* the bodies whose url has the scheme javascript
DangerousSchemeBodies ==
  {body \in CreateBodies : body.url.t = "str" /\ UrlScheme(Strip(body.url.s)) = "javascript"}

\* C14: Create with a URL of a dangerous scheme such as javascript:alert(1)
\* returns 400, and the error message of the response is a
\* security-violation message of the validator, not a plain format message.
C14_DangerousSchemeIsSecurityViolation ==
  [][\A p \in Procs, body \in DangerousSchemeBodies :
       CreateRequest(p, body) =>
         /\ returned'.response.statusCode = 400
         /\ IsSecurityMessage(returned'.response.error)]_vars

\* C15: for every http/https URL whose host equals or contains a
\* blocklisted token (localhost, 127.0.0.1, 0.0.0.0, ::1, internal, local,
\* intranet, private) validate_url fails with a security error, for each of
\* the eight tokens, the IPv6 loopback and hosts written with a port
\* included.
C15_BlockedHostsRejected ==
  (Applied("validate_url") /\ probe.arg.token # "") =>
    /\ ~probe.result.is_valid
    /\ IsSecurityMessage(probe.result.error_message)

\* C16: validate_url rejects every URL whose text contains one of the
\* dangerous substrings: ..//, @, data:, javascript:, vbscript:, file:, a
\* backslash, 0x, %00, %0d, %0a; a URL otherwise admissible that contains a
\* single backslash is rejected.
C16_DangerousSubstringsRejected ==
  (Applied("validate_url") /\ probe.arg.marker # "") => ~probe.result.is_valid

\* the 62 characters 0-9, A-Z, a-z
Alphabet62 == {At(DIGITS \o UPPER \o LOWER, i) : i \in 1..62}

\* C17: for every n >= 1 and every pair of draws (a first draw that reaches
\* zero before n characters are produced and a padding draw that reaches
\* zero during padding included) generate_short_id(n) returns a string of
\* exactly n characters, all from the alphabet [0-9A-Za-z]; for every
\* n <= 0 it fails with an error and returns no identifier.
C17_GeneratedIdShape ==
  Applied("generate_short_id") =>
    IF probe.arg.length >= 1
    THEN /\ probe.result.raised = ""
         /\ Len(probe.result.short_id) = probe.arg.length
         /\ \A i \in 1..Len(probe.result.short_id) :
              At(probe.result.short_id, i) \in Alphabet62
    ELSE /\ probe.result.raised = "ValueError"
         /\ probe.result.short_id = ""

\* an identifier of four or more characters was made from a first draw of
\* one base-62 digit and a padding draw of at most two
C17_Witness ==
  /\ Applied("generate_short_id")
  /\ probe.arg.length >= 4
  /\ probe.arg.random_int \in 1..61
  /\ probe.arg.padding_uuid \in 1..3843
  /\ Len(probe.result.short_id) = probe.arg.length

\* invocation p takes the event in this step
Receives(p, event) ==
  \/ LambdaCreate(p, event)
  \/ LambdaRedirect(p, event)
  \/ \E f \in StoreFailures : LambdaRedirectError(p, event, f)
  \/ LambdaReject(p, event)

\* after the step the request of invocation p is with the handler named:
\* in its first store call, or answered by it
HandledBy(p, name) ==
  \/ name = "create_short_url" /\ pc'[p] = "put_item"
  \/ name = "redirect_url" /\ pc'[p] = "check"
  \/ pc'[p] = "idle" /\ returned'.handler = name

\* C18: routing at lambda_handler: a POST to /urls is handled by Create; a
\* GET to any path other than /urls, or an edge-cache-style request
\* carrying a URI path directly (Records[0].cf.request.uri), is handled by
\* Redirect; every other method/path combination gets a 405 response and
\* causes no store operation.
C18_Routing ==
  [][\A p \in Procs, event \in LambdaEvents :
       Receives(p, event) =>
         IF event.httpMethod = "POST" /\ event.path = "/urls"
         THEN HandledBy(p, "create_short_url")
         ELSE IF (event.httpMethod = "GET" /\ event.path # "/urls") \/ event.kind = "cloudfront"
         THEN HandledBy(p, "redirect_url")
         ELSE /\ pc'[p] = "idle"
              /\ returned'.response.statusCode = 405
              /\ returned'.calls = <<>>
              /\ store' = store]_vars

\* C19: no raw backend (store) exception text ever reaches the caller: with
\* the development flag unset (the default, which the model takes), the
\* error body of every 500 response of Create and Redirect is a fixed
\* message that does not contain the text of the underlying store
\* exception, for every store failure on every code path.
C19_NoBackendTextInErrors ==
  (/\ returned.handler \in {"create_short_url", "redirect_url"}
   /\ returned.response.statusCode = 500)
  => ~Contains(returned.response.error, CLIENT_ERROR_TEXT)

\* C20: every response of the service (Create success, Create failure,
\* Redirect 301 in both front-door shapes, Redirect failure, 405) carries
\* the headers Cache-Control 'no-cache, no-store, must-revalidate', Pragma
\* 'no-cache' and Expires '0'.
C20_AllResponsesDisableCaching ==
  returned.handler # "none" =>
    /\ returned.response.headers.Cache_Control = "no-cache, no-store, must-revalidate"
    /\ returned.response.headers.Pragma = "no-cache"
    /\ returned.response.headers.Expires = "0"

\* what C21 says of a record as Create stores it
StoredAsCreated(it) ==
  /\ it.expiry_days \in MIN_EXPIRY_DAYS..MAX_EXPIRY_DAYS
  /\ it.expire_at = it.create_at + it.expiry_days * SECONDS_PER_DAY
  /\ it.expire_at > it.create_at
  /\ it.clicks = 0
  /\ it.status = "active"

\* C21: every record stored by Create, for every raw expiry input, has
\* expire_at = create_at + expiry_days * 86400 with expiry_days an integer
\* in 1..3650, hence expire_at > create_at; it has clicks = 0 and status
\* 'active' at creation; and the expires_in_days of the 200 response is the
\* expiry_days of the stored record.
C21_StoredRecordShape ==
  [][\A it \in store' :
       ~HasKey(store, Key(it)) =>
         /\ StoredAsCreated(it)
         /\ returned'.handler = "create_short_url"
         /\ returned'.response.statusCode = 200
         /\ returned'.response.expires_in_days = it.expiry_days]_vars

\* a Create that began after the clock had advanced has stored a record of
\* the largest sampled day count and has answered 200 with it
C21_Witness ==
  /\ returned.response.statusCode = 200
  /\ returned.response.expires_in_days = MaxSampleDays
  /\ \E it \in store : it.expiry_days = MaxSampleDays /\ it.create_at > 0

\* the status codes of the service's responses
StatusCodes == {200, 301, 400, 404, 405, 410, 500}

\* C22: for every inbound event (also with requestContext, body or
\* pathParameters missing or null) and every outcome of the store calls,
\* lambda_handler returns one well-formed response carrying a status code:
\* no exception leaves it and no path returns without a response.
C22_AlwaysAResponse ==
  returned.handler # "none" => returned.response.statusCode \in StatusCodes

\* C23: under every interleaving of concurrent Redirects of one identifier
\* a record's last_accessed never decreases: after any increment it is the
\* largest time sampled among the Redirects whose increment has been
\* applied so far.
C23_LastAccessedMonotonic ==
  [][\A r \in store, q \in store' :
       Key(r) = Key(q) => q.last_accessed >= r.last_accessed]_vars

\* the text consists of characters 0x21-0x7E only
PrintableAscii(text) ==
  /\ Len(text) > 0
  /\ \A i \in 1..Len(text) : Find(PRINTABLE, At(text, i)) > 0

\* C24: the original_url stored by Create is exactly the string that passed
\* the validator's checks: after any sequence of Creates every stored
\* original_url consists only of printable-ASCII characters 0x21-0x7E, with
\* no leading, trailing or embedded whitespace or control characters.
C24_StoredUrlPrintable ==
  \A r \in store : PrintableAscii(r.original_url)

Keys(table) == {Key(r) : r \in table}

\* a step of redirect_url
RedirectStep ==
  \/ \E p \in Procs, ev \in RedirectEvents : RedirectLookup(p, ev)
  \/ \E p \in Procs, ev \in RedirectEvents, f \in StoreFailures : RedirectLookupError(p, ev, f)
  \/ \E p \in Procs : RedirectCheck(p)
  \/ \E p \in Procs : RedirectUpdate(p)
  \/ \E p \in Procs, f \in StoreFailures : RedirectUpdateError(p, f)

\* C25: a Redirect never adds or removes a record: the set of stored
\* (short_id, created_at) keys is the same before and after every step of a
\* Redirect, also when the purge has deleted the looked-up record between
\* the lookup and the increment (the increment on the vanished key fails
\* and is swallowed, it does not re-create the record); and the increment
\* is applied to the record whose original_url is served.
C25_RedirectKeepsRecords ==
  [][RedirectStep =>
       /\ Keys(store') = Keys(store)
       /\ \A r \in store \ store' :
            /\ returned'.response.statusCode = 301
            /\ Key(r) = returned'.key
            /\ r.original_url = returned'.response.Location]_vars

\* a Redirect has answered 301 although its increment was rejected, the
\* record it had looked up being no longer in the table
C25_Witness ==
  /\ returned.handler = "redirect_url"
  /\ returned.response.statusCode = 301
  /\ returned.calls = <<Call("query", "ok"), Call("update_item", "ClientError")>>
  /\ returned.key \notin Keys(store)

====
